---- MODULE Spec2Model ----
(***************************************************************************)
(* Touch gesture interpretation of src/src/components/TouchInput.tsx.      *)
(*                                                                         *)
(* The component keeps five refs (lastTouchRef, lastDistRef,               *)
(* touchStartTimeRef, startTouchPosRef, isDraggingRef) and drives five     *)
(* values of the TreeContext (rotationBoost, panOffset, zoomOffset,        *)
(* pointer, clickTrigger) from three handlers: handleTouchStart,           *)
(* handleTouchMove, handleTouchEnd.                                        *)
(*                                                                         *)
(* Numbers.  Touch coordinates are whole pixels.  The accumulators are     *)
(* kept in fixed point, Scale units per 1.0, so that the sensitivities     *)
(* 0.5 * 0.05 (rotation) and 0.05 (pan, zoom) are exact integers.          *)
(* Math.hypot is the integer square root; every set of touch points used   *)
(* below has whole-pixel distances between any two of its points, so the   *)
(* root is exact (checked by DistancesExact).                              *)
(*                                                                         *)
(* Events.  fingers is the list of touch points on the screen.  A          *)
(* touchstart delivers the old points followed by the new ones, a          *)
(* touchmove the same number of points, a touchend the points that stay    *)
(* down; no touchend comes without a finger lifting.  A finger lands       *)
(* inside the viewport; once down it can slide past the viewport's edge    *)
(* and its touchmove events still arrive, with coordinates outside         *)
(* 0..innerWidth, 0..innerHeight.  The component binds no touchcancel      *)
(* handler, and none is modelled.                                          *)
(***************************************************************************)
EXTENDS Integers, Sequences, FiniteSets, TLC

VARIABLES
    \* refs of the component (lines 18-22)
    lastTouch,        \* lastTouchRef.current: sequence of points
    lastDist,         \* lastDistRef.current: <<>> is null, <<d>> a distance
    touchStartTime,   \* touchStartTimeRef.current
    startTouchPos,    \* startTouchPosRef.current: <<>> is null, <<p>> a point
    isDragging,       \* isDraggingRef.current
    \* TreeContext values the component reads or sets (lines 5-15)
    state,            \* display mode, read only
    rotationBoost,    \* fixed point, Scale units per 1.0
    panOffset,        \* [x, y], fixed point
    zoomOffset,       \* fixed point
    pointer,          \* <<>> before the first setPointer, else <<[x, y]>>,
                      \* each coordinate a fraction [n, d]
    clickTrigger,     \* last value given to setClickTrigger
    \* environment
    fingers,          \* e.touches: the touch points now on the screen
    now,              \* Date.now()
    \* history of the current session (first finger down to all fingers up),
    \* kept for stating properties; no handler reads it
    session

vars == <<lastTouch, lastDist, touchStartTime, startTouchPos, isDragging,
          state, rotationBoost, panOffset, zoomOffset, pointer, clickTrigger,
          fingers, now, session>>

refs == <<lastTouch, lastDist, touchStartTime, startTouchPos, isDragging>>

----------------------------------------------------------------------------
(* Program constants *)

TAP_THRESHOLD == 10
TAP_TIMEOUT == 300
\* Math.abs(dx) > 2 || Math.abs(dy) > 2
DRAG_STEP == 2
\* fixed-point resolution: 1 / (0.5 * 0.05) units per 1.0
Scale == 40
\* rotation is clamped to [-3.0, 3.0]
ROTATION_LIMIT == 3
\* zoom is clamped to [-20, 40]
ZOOM_MIN == -20
ZOOM_MAX == 40

----------------------------------------------------------------------------
(* Bounds of the exploration *)

\* most touch points on the screen at once
MaxFingers == 3
\* clock ticks explored after mount
MaxTicks == 2
\* the fine track has MaxSteps steps of DRAG_STEP px
MaxSteps == 6
\* fine track: pan and rotation followed, in pixels of net finger travel
MaxDrift == 4
\* coarse set: accumulated pan explored, in full-span moves
MaxSweeps == 1
\* viewport
innerWidth == 2000
innerHeight == 2000

\* one clock tick; two ticks make the tap timeout exactly
TickMs == TAP_TIMEOUT \div 2
\* Date.now() at mount: any value past the tap timeout
ClockOrigin == 4 * TAP_TIMEOUT

----------------------------------------------------------------------------
(* Helpers *)

Pt(px, py) == [x |-> px, y |-> py]

Abs(n) == IF n < 0 THEN 0 - n ELSE n

Min(a, b) == IF a < b THEN a ELSE b

Max(a, b) == IF a > b THEN a ELSE b

\* largest r in lo..hi with r * r <= n, by bisection
RECURSIVE RootIn(_, _, _)
RootIn(n, lo, hi) ==
    IF lo >= hi THEN lo
    ELSE LET mid == (lo + hi + 1) \div 2
         IN  IF mid * mid <= n THEN RootIn(n, mid, hi)
                               ELSE RootIn(n, lo, mid - 1)

\* Math.hypot(a, b), to the whole pixel below
Hypot(a, b) == RootIn(a * a + b * b, Max(Abs(a), Abs(b)), Abs(a) + Abs(b))

\* Math.hypot(t[0].x - t[1].x, t[0].y - t[1].y)
PinchDist(t) == Hypot(t[1].x - t[2].x, t[1].y - t[2].y)

NormalizeSwapped(p) ==
    [x |-> [n |-> p.y, d |-> innerWidth], y |-> [n |-> p.x, d |-> innerHeight]]

\* { x: t.clientX / window.innerWidth, y: t.clientY / window.innerHeight }
Normalize(p) ==
    [x |-> [n |-> p.x, d |-> innerWidth], y |-> [n |-> p.y, d |-> innerHeight]]

----------------------------------------------------------------------------
(* Touch points delivered by the input layer *)

\* clientX and clientY are relative to the viewport: a point is inside it
\* when they are within 0..innerWidth and 0..innerHeight
InViewport(p) ==
    /\ 0 <= p.x /\ p.x <= innerWidth
    /\ 0 <= p.y /\ p.y <= innerHeight

\* fine track: a vertical line of pixels DRAG_STEP apart (tap, jitter, slow
\* drift) from the top edge of the viewport down, two points beside its
\* foot, DRAG_STEP and DRAG_STEP + 1 px away, and the point DRAG_STEP px
\* above the top edge, where a finger that went down inside can slide to
\* (touchmove goes on being delivered to the element the touch began on)
FinePts ==
    { Pt(0, DRAG_STEP * k) : k \in 0..MaxSteps }
        \cup { Pt(DRAG_STEP, 0), Pt(DRAG_STEP + 1, 0) }
        \cup { Pt(0, 0 - DRAG_STEP) }

\* coarse set: three corners of a 1200 x 1600 rectangle, whose sides and
\* diagonal are 1200, 1600 and 2000 px (pinch, sweep, the clamps)
CoarsePts == { Pt(0, 0), Pt(1200, 0), Pt(0, 1600) }

\* e.touches: up to MaxFingers touch points of S, no two on the same pixel
TouchLists(S) ==
    { t \in UNION { [1..n -> S] : n \in 0..MaxFingers } :
        \A i, j \in 1..Len(t) : i # j => t[i] # t[j] }

\* t lists the points of f that stay down, in their order
IsRest(t, f) ==
    /\ Len(t) < Len(f)
    /\ \E keep \in SUBSET (1..Len(f)) :
          /\ Cardinality(keep) = Len(t)
          /\ \A i \in 1..Len(t) :
                t[i] = f[CHOOSE k \in keep :
                           Cardinality({ m \in keep : m < k }) = i - 1]

----------------------------------------------------------------------------
(* handleTouchStart, lines 28-49 *)

TwoOrMoreFingerStart(touches) == Len(touches) >= 2

\* line 43
TwoFingerStart(touches) == Len(touches) = 2

handleTouchStart(touches) ==
    /\ lastTouch' = touches
    /\ touchStartTime' = now
    /\ isDragging' = FALSE
    /\ IF Len(touches) = 1
       THEN /\ startTouchPos' = << touches[1] >>
            /\ pointer' = << Normalize(touches[1]) >>
            /\ UNCHANGED lastDist
       ELSE IF TwoFingerStart(touches)
       THEN /\ lastDist' = << PinchDist(touches) >>
            /\ UNCHANGED << startTouchPos, pointer >>
       ELSE UNCHANGED << lastDist, startTouchPos, pointer >>
    /\ UNCHANGED << state, rotationBoost, panOffset, zoomOffset, clickTrigger >>

----------------------------------------------------------------------------
(* handleTouchMove, lines 51-116 *)

SingleBranchAnyPrev(touches) == Len(touches) = 1 /\ Len(lastTouch) >= 1

\* line 55
SingleBranch(touches) == Len(touches) = 1 /\ Len(lastTouch) = 1

PinchBranchTwoOrMore(touches) ==
    Len(touches) >= 2 /\ Len(lastTouch) >= 2 /\ lastDist # << >>

PinchBranchAnyPrev(touches) == Len(touches) = 2 /\ lastDist # << >>

\* line 90
PinchBranch(touches) ==
    Len(touches) = 2 /\ Len(lastTouch) = 2 /\ lastDist # << >>

DragDetectedOnXOnly(dx, dy) == Abs(dx) > DRAG_STEP

\* line 60
DragDetected(dx, dy) == Abs(dx) > DRAG_STEP \/ Abs(dy) > DRAG_STEP

\* lines 68-73: prev - dx * 0.5 * 0.05, clamped to [-3.0, 3.0]
RotationNext(prev, dx) ==
    Max(Min(prev - (dx * Scale) \div 40, ROTATION_LIMIT * Scale),
        0 - ROTATION_LIMIT * Scale)

PanNextYNotInverted(prev, dx, dy) ==
    [x |-> prev.x + (dx * Scale) \div 20, y |-> prev.y + (dy * Scale) \div 20]

\* lines 77-80
PanNext(prev, dx, dy) ==
    [x |-> prev.x + (dx * Scale) \div 20, y |-> prev.y - (dy * Scale) \div 20]

ZoomNextNoFloor(prev, deltaDist) ==
    Min(prev - (deltaDist * Scale) \div 20, ZOOM_MAX * Scale)

ZoomNextFlipped(prev, deltaDist) ==
    Max(ZOOM_MIN * Scale, Min(prev + (deltaDist * Scale) \div 20, ZOOM_MAX * Scale))

\* lines 100-110: prev - deltaDist * 0.05, clamped to [-20, 40]
ZoomNext(prev, deltaDist) ==
    Max(ZOOM_MIN * Scale, Min(prev - (deltaDist * Scale) \div 20, ZOOM_MAX * Scale))

handleTouchMove(touches) ==
    /\ IF SingleBranch(touches)
       THEN LET dx == touches[1].x - lastTouch[1].x
                dy == touches[1].y - lastTouch[1].y
            IN  /\ isDragging' = (isDragging \/ DragDetected(dx, dy))
                /\ IF state = "FORMED"
                   THEN /\ rotationBoost' = RotationNext(rotationBoost, dx)
                        /\ UNCHANGED panOffset
                   ELSE /\ panOffset' = PanNext(panOffset, dx, dy)
                        /\ UNCHANGED rotationBoost
                /\ pointer' = << Normalize(touches[1]) >>
                /\ UNCHANGED << zoomOffset, lastDist >>
       ELSE IF PinchBranch(touches)
       THEN LET dist == PinchDist(touches)
                deltaDist == dist - lastDist[1]
            IN  /\ isDragging' = TRUE
                /\ zoomOffset' = ZoomNext(zoomOffset, deltaDist)
                /\ lastDist' = << dist >>
                /\ UNCHANGED << rotationBoost, panOffset, pointer >>
       ELSE UNCHANGED << isDragging, rotationBoost, panOffset, pointer,
                         zoomOffset, lastDist >>
    /\ lastTouch' = touches
    /\ UNCHANGED << touchStartTime, startTouchPos, state, clickTrigger >>

----------------------------------------------------------------------------
(* handleTouchEnd, lines 118-136 *)

IsTapAnyCount(timeSinceStart) ==
    ~isDragging /\ timeSinceStart < TAP_TIMEOUT

IsTapInclusive(timeSinceStart) ==
    ~isDragging /\ timeSinceStart <= TAP_TIMEOUT /\ Len(lastTouch) = 1

\* line 122
IsTap(timeSinceStart) ==
    ~isDragging /\ timeSinceStart < TAP_TIMEOUT /\ Len(lastTouch) = 1

handleTouchEndAlwaysClears(touches) ==
    LET timeSinceStart == now - touchStartTime
    IN  /\ clickTrigger' = IF IsTap(timeSinceStart) THEN now ELSE clickTrigger
        /\ lastDist' = << >>
        /\ UNCHANGED << lastTouch, touchStartTime, startTouchPos, isDragging,
                        state, rotationBoost, panOffset, zoomOffset, pointer >>

\* touches is e.touches: the points still down
handleTouchEnd(touches) ==
    LET timeSinceStart == now - touchStartTime
    IN  /\ clickTrigger' = IF IsTap(timeSinceStart) THEN now ELSE clickTrigger
        /\ lastDist' = IF Len(touches) = 0 THEN << >> ELSE lastDist
        /\ UNCHANGED << lastTouch, touchStartTime, startTouchPos, isDragging,
                        state, rotationBoost, panOffset, zoomOffset, pointer >>

----------------------------------------------------------------------------
(* History of the session in progress *)

Modes == { "FORMED", "CHAOS" }

\* the accumulators, as one value
Accumulators ==
    [rotation |-> rotationBoost, pan |-> panOffset, zoom |-> zoomOffset]

NoSession ==
    [peak |-> 0, t0 |-> 0, p0 |-> << >>, acc0 |-> << >>, taps |-> 0,
     bigStep |-> FALSE, reach |-> 0, pinch |-> "none", over |-> FALSE,
     dur |-> 0]

\* how far p is from the session's first point q, against TAP_THRESHOLD:
\* 0 on it, 1 nearer than the threshold, 2 exactly at it, 3 beyond
ReachClass(p, q) ==
    LET d2 == (p.x - q.x) * (p.x - q.x) + (p.y - q.y) * (p.y - q.y)
        th2 == TAP_THRESHOLD * TAP_THRESHOLD
    IN  IF d2 = 0 THEN 0 ELSE IF d2 < th2 THEN 1 ELSE IF d2 = th2 THEN 2 ELSE 3

\* peak: most points down at once; t0: when the first finger went down;
\* taps: calls of setClickTrigger; over, dur: all fingers are up, and how long
\* after t0 they were.  Followed only while the session has had one finger:
\* p0, where it went down; bigStep, whether a sample was more than DRAG_STEP
\* from the sample before on an axis; reach, the farthest sample from p0;
\* acc0, the accumulators at t0 (dropped at the first such step).
\* pinch: whether the latest event was a pinch to another distance that
\* changed the zoom accumulator ("moved") or left it where it was ("held")
SessionAfterStart(touches) ==
    IF fingers = << >>
    THEN [NoSession EXCEPT !.peak = Len(touches), !.t0 = now,
             !.p0 = IF Len(touches) = 1 THEN << touches[1] >> ELSE << >>,
             !.acc0 = IF Len(touches) = 1 THEN << Accumulators >> ELSE << >>]
    ELSE [session EXCEPT !.peak = Max(@, Len(touches)), !.p0 = << >>,
             !.acc0 = << >>, !.bigStep = FALSE, !.reach = 0,
             !.pinch = "none"]

SessionAfterMove(touches) ==
    IF session.peak = 1
    THEN LET big == \/ Abs(touches[1].x - fingers[1].x) > DRAG_STEP
                    \/ Abs(touches[1].y - fingers[1].y) > DRAG_STEP
         IN  [session EXCEPT
                 !.bigStep = @ \/ big,
                 !.acc0 = IF big THEN << >> ELSE @,
                 !.reach = Max(@, ReachClass(touches[1], session.p0[1]))]
    ELSE IF PinchBranch(touches) /\ PinchDist(touches) # lastDist[1]
    THEN [session EXCEPT
             !.pinch =
                 IF ZoomNext(zoomOffset, PinchDist(touches) - lastDist[1])
                        = zoomOffset
                 THEN "held" ELSE "moved"]
    ELSE [session EXCEPT !.pinch = "none"]

SessionAfterEnd(touches, tapped) ==
    [session EXCEPT !.taps = Min(@ + (IF tapped THEN 1 ELSE 0), 2),
                    !.pinch = "none",
                    !.over = (touches = << >>),
                    !.dur = IF touches = << >> THEN now - session.t0 ELSE 0]

----------------------------------------------------------------------------
(* Events *)

\* a finger (or several at once) lands, inside the viewport: e.touches is
\* the old points, where they are, followed by the new ones
TouchStart(touches) ==
    /\ Len(touches) > Len(fingers)
    /\ SubSeq(touches, 1, Len(fingers)) = fingers
    /\ \A i \in (Len(fingers) + 1)..Len(touches) : InViewport(touches[i])
    /\ fingers' = touches
    /\ handleTouchStart(touches)
    /\ session' = SessionAfterStart(touches)
    /\ UNCHANGED now

\* the fingers on the screen move
TouchMove(touches) ==
    /\ Len(fingers) > 0
    /\ Len(touches) = Len(fingers)
    /\ fingers' = touches
    /\ handleTouchMove(touches)
    /\ session' = SessionAfterMove(touches)
    /\ UNCHANGED now

\* a finger (or several at once) lifts: e.touches is the points still down
TouchEnd(touches) ==
    /\ IsRest(touches, fingers)
    /\ fingers' = touches
    /\ handleTouchEnd(touches)
    /\ session' = SessionAfterEnd(touches, IsTap(now - touchStartTime))
    /\ UNCHANGED now

\* time passes
Tick ==
    /\ now < ClockOrigin + MaxTicks * TickMs
    /\ now' = now + TickMs
    /\ UNCHANGED << refs, state, rotationBoost, panOffset, zoomOffset, pointer,
                    clickTrigger, fingers, session >>

\* the pan offset, which nothing clamps, within cap of 0
PanWithin(cap) == Abs(panOffset.x) <= cap /\ Abs(panOffset.y) <= cap

\* The display mode is read at line 64 and set by other components; it is
\* chosen here and kept through a behaviour.  No handler keeps anything that
\* depends on the mode of an earlier event.
Init ==
    /\ lastTouch = << >>
    /\ lastDist = << >>
    /\ touchStartTime = 0
    /\ startTouchPos = << >>
    /\ isDragging = FALSE
    /\ state \in Modes
    /\ rotationBoost = 0
    /\ panOffset = [x |-> 0, y |-> 0]
    /\ zoomOffset = 0
    /\ pointer = << >>
    /\ clickTrigger = 0
    /\ fingers = << >>
    /\ now = ClockOrigin
    /\ session = NoSession

\* fine track: sessions of one finger
FineLists == { t \in TouchLists(FinePts) : Len(t) <= 1 }

\* coarse set: up to MaxFingers fingers; a finger landing alone on an empty
\* screen lands at Home
Home == Pt(0, 0)

CoarseLists == TouchLists(CoarsePts)

CoarseStarts == { t \in CoarseLists : Len(t) = 1 => t[1] = Home }

\* fine track: pan and rotation followed for MaxDrift px of net finger travel
FineWindow ==
    /\ PanWithin((MaxDrift * Scale) \div 20)
    /\ Abs(rotationBoost) <= (MaxDrift * Scale) \div 40

\* coarse set: pan followed for MaxSweeps sweeps across the longer side
CoarseWindow == PanWithin((MaxSweeps * 1600 * Scale) \div 20)

\* one finger on the fine track: taps, jitter and slow drags, with the clock
\* running, in either display mode
SpecFineNext ==
    \/ \E t \in FineLists : TouchStart(t)
    \/ \E t \in FineLists : TouchMove(t) /\ FineWindow'
    \/ \E t \in FineLists : TouchEnd(t)
    \/ Tick

SpecFine == Init /\ [][SpecFineNext]_vars

\* up to MaxFingers fingers on the coarse set: sweeps and pinches that reach
\* the clamps, in either display mode
Next ==
    \/ \E t \in CoarseStarts : TouchStart(t)
    \/ \E t \in CoarseLists : TouchMove(t) /\ CoarseWindow'
    \/ \E t \in CoarseLists : TouchEnd(t)

Spec == Init /\ [][Next]_vars


\* every distance the handlers take on the coarse set is a whole number of px
DistancesExact ==
    \A t \in CoarseLists :
        Len(t) >= 2 =>
            PinchDist(t) * PinchDist(t)
                = (t[1].x - t[2].x) * (t[1].x - t[2].x)
                    + (t[1].y - t[2].y) * (t[1].y - t[2].y)

----------------------------------------------------------------------------
(* Properties *)

\* C1: a tap is emitted only at the release of a session that had exactly one
\* point down from first finger down to all fingers up, with isDragging false
\* at the release; a session that ever had two fingers down emits no tap.
C1_TapOnlyAfterOneFingerSession ==
    session.taps > 0 => (session.over /\ session.peak = 1 /\ ~isDragging)

\* C2: while a session lasts, isDragging once true stays true, also across
\* the touchstart of a further finger.
C2_DraggingStaysTrue ==
    [][(isDragging /\ fingers # << >> /\ fingers' # << >>) => isDragging']_vars

\* C3: a one-finger session whose samples all stay nearer than TAP_THRESHOLD
\* to where the finger went down, released less than TAP_TIMEOUT after it,
\* emits exactly one tap.
C3_NearQuickSessionTaps ==
    (session.over /\ session.peak = 1 /\ session.reach <= 1
        /\ session.dur < TAP_TIMEOUT)
    => session.taps = 1

\* C4: in a one-finger session, once a sample is more than DRAG_STEP px from
\* the sample before on the x or the y axis, isDragging is true from that
\* sample on and the release emits no tap, wherever the finger is by then.
C4_BigStepIsDrag ==
    (session.peak = 1 /\ session.bigStep) => (isDragging /\ session.taps = 0)

\* C4 witness: such a session, released within the timeout with the finger
\* back where it went down.
C4_BackAtStart ==
    /\ session.over /\ session.peak = 1 /\ session.bigStep
    /\ lastTouch = session.p0
    /\ session.dur < TAP_TIMEOUT

\* C5: a one-finger session in which some sample is farther than
\* TAP_THRESHOLD from where the finger went down emits no tap, however small
\* the steps between samples.
C5_FarSessionNeverTaps ==
    (session.peak = 1 /\ session.reach = 3) => session.taps = 0

\* C6: the rotation accumulator is within [-3.0, 3.0] and the zoom
\* accumulator within [-20, 40], always.
C6_AccumulatorsClamped ==
    /\ 0 - ROTATION_LIMIT * Scale <= rotationBoost
    /\ rotationBoost <= ROTATION_LIMIT * Scale
    /\ ZOOM_MIN * Scale <= zoomOffset
    /\ zoomOffset <= ZOOM_MAX * Scale

\* C6 witness: both accumulators at a bound, the rotation after a sweep that
\* alone is worth ten times its range.
C6_AtTheBounds ==
    /\ rotationBoost = ROTATION_LIMIT * Scale
    /\ zoomOffset = ZOOM_MAX * Scale

\* a touchmove with the points t that takes the pinch branch (in the
\* properties below t is fingers', the points the event delivers)
PinchStep(t) == PinchBranch(t) /\ TouchMove(t)

C8_OneTapAtLastRelease ==
    session.taps <= 1 /\ (session.taps = 1 => session.over)

\* C8 witness: a touchend has left one of two fingers down, with no drag
\* detected and the timeout not reached, and no tap was emitted.
C8_LiftLeavingOneFinger ==
    /\ Len(fingers) = 1 /\ Len(lastTouch) = 2
    /\ ~isDragging /\ now - touchStartTime < TAP_TIMEOUT
    /\ session.taps = 0

\* C9: a one-finger session released with no drag detected emits a tap if
\* and only if the release is less than TAP_TIMEOUT after the finger went
\* down; if the finger never left its pixel and the release is in time, the
\* tap is emitted and rotation, pan and zoom are what they were.
C9_TapIffQuick ==
    (session.over /\ session.peak = 1 /\ ~isDragging)
    => /\ (session.taps = 1) <=> (session.dur < TAP_TIMEOUT)
       /\ (session.reach = 0 /\ session.dur < TAP_TIMEOUT)
            => (session.taps = 1 /\ session.acc0 = << Accumulators >>)

\* C9 witness: a release exactly TAP_TIMEOUT after the finger went down, on
\* the same pixel, without a tap.
C9_ReleaseAtTimeout ==
    /\ session.over /\ session.peak = 1 /\ ~isDragging
    /\ session.reach = 0
    /\ session.dur = TAP_TIMEOUT
    /\ session.taps = 0

\* the first two points of t
FirstTwo(t) == SubSeq(t, 1, 2)

\* C10 as stated: a touchstart or touchmove with three or more points leaves
\* lastDist and the zoom accumulator as the same event with only its first
\* two points would.
C10_ExtraPointsDropped ==
    [][LET t == fingers' IN
          Len(t) >= 3 =>
              /\ TouchStart(t) => lastDist' = << PinchDist(FirstTwo(t)) >>
              /\ TouchMove(t) =>
                    IF PinchBranch(FirstTwo(t))
                    THEN /\ lastDist' = << PinchDist(FirstTwo(t)) >>
                         /\ zoomOffset' =
                              ZoomNext(zoomOffset,
                                       PinchDist(FirstTwo(t)) - lastDist[1])
                    ELSE UNCHANGED << lastDist, zoomOffset >>]_vars

\* C10 amended: a touchstart or touchmove with three or more points takes
\* neither the one-finger nor the two-finger branch: it stores the sample
\* (touchstart also restarts the clock and clears isDragging) and leaves
\* lastDist, the start position, the pointer, the accumulators and the tap
\* trigger as they were.
C10_ExtraPointsSkipBranches ==
    [][LET t == fingers' IN
          Len(t) >= 3 =>
              /\ TouchStart(t) =>
                    /\ lastTouch' = t /\ touchStartTime' = now /\ ~isDragging'
                    /\ UNCHANGED << lastDist, startTouchPos, pointer,
                                    rotationBoost, panOffset, zoomOffset,
                                    clickTrigger >>
              /\ TouchMove(t) =>
                    /\ lastTouch' = t
                    /\ UNCHANGED << lastDist, startTouchPos, pointer,
                                    rotationBoost, panOffset, zoomOffset,
                                    clickTrigger, touchStartTime,
                                    isDragging >>]_vars

\* C10 witness: three fingers down and sampled, lastDist still the distance
\* of an earlier pair and not that of the first two points.
C10_ThreeDownStaleDist ==
    /\ Len(fingers) = 3 /\ lastTouch = fingers
    /\ lastDist # << >>
    /\ lastDist # << PinchDist(FirstTwo(fingers)) >>

\* C11: a touchmove of one point after a sample of one point sets, in mode
\* FORMED, the rotation to prev - dx * 0.025 clamped to [-3, 3] and leaves pan
\* and zoom; in any other mode it sets the pan to (prev.x + dx * 0.05,
\* prev.y - dy * 0.05) and leaves rotation and zoom.  A step of more than
\* DRAG_STEP px sets isDragging.  On the numbers of the example, dx = 20 and
\* dy = -20 add (+1.0, +1.0) to the pan and count as a drag.
C11_SingleFingerMove ==
    [][LET t == fingers' IN
          /\ (SingleBranch(t) /\ TouchMove(t)) =>
                LET dx == t[1].x - lastTouch[1].x
                    dy == t[1].y - lastTouch[1].y
                IN  /\ IF state = "FORMED"
                       THEN /\ rotationBoost' =
                                 Max(0 - 3 * Scale,
                                     Min(rotationBoost - (dx * Scale) \div 40,
                                         3 * Scale))
                            /\ UNCHANGED << panOffset, zoomOffset >>
                       ELSE /\ panOffset'.x = panOffset.x + (dx * Scale) \div 20
                            /\ panOffset'.y = panOffset.y - (dy * Scale) \div 20
                            /\ UNCHANGED << rotationBoost, zoomOffset >>
                    /\ (Abs(dx) > 2 \/ Abs(dy) > 2) => isDragging'
          /\ PanNext(panOffset, 20, 0 - 20)
                = [x |-> panOffset.x + Scale, y |-> panOffset.y + Scale]
          /\ DragDetected(20, 0 - 20)]_vars

\* C11 witness: in a mode other than FORMED, one finger has swept from
\* (0, 1600) to (1200, 0) and the pan, 0 before, is (+60.0, +80.0).
C11_SweptUpAndRight ==
    /\ state # "FORMED"
    /\ fingers = << Pt(1200, 0) >> /\ lastTouch = fingers
    /\ isDragging
    /\ panOffset = [x |-> 60 * Scale, y |-> 80 * Scale]
    /\ rotationBoost = 0 /\ zoomOffset = 0

\* C12: a one-finger session that ends in a tap, all samples nearer than
\* TAP_THRESHOLD to where the finger went down and the release less than
\* TAP_TIMEOUT after it, leaves the rotation and the pan at the release what
\* they were when the finger went down.
C12_TapLeavesRotationAndPan ==
    (session.over /\ session.peak = 1 /\ session.taps = 1
        /\ session.reach <= 1 /\ session.dur < TAP_TIMEOUT
        /\ session.acc0 # << >>)
    => /\ rotationBoost = session.acc0[1].rotation
       /\ panOffset = session.acc0[1].pan

\* C13: every pointer value set (by a one-finger touchstart or a one-finger
\* touchmove) lies in [0, 1] x [0, 1].
C13_PointerInUnitSquare ==
    pointer # << >> =>
        /\ 0 <= pointer[1].x.n /\ pointer[1].x.n <= pointer[1].x.d
        /\ 0 <= pointer[1].y.n /\ pointer[1].y.n <= pointer[1].y.d

\* C14: whenever fewer than two touch points are down, lastDist is null; and
\* whenever it is not null, the previous sample has two points and lastDist
\* is the distance between them.
C14_DistOnlyWithTwoPoints ==
    /\ Len(fingers) < 2 => lastDist = << >>
    /\ lastDist # << >> =>
          (Len(lastTouch) = 2 /\ lastDist = << PinchDist(lastTouch) >>)

\* C15: a change of the number of fingers between one and two drops the
\* delta in flight.  A touchmove whose sample has another number of points
\* than the sample before changes no accumulator (so the first touchmove
\* after a lift from two fingers to one changes neither rotation nor pan);
\* a one-finger step is measured from the sample before it; the landing of
\* a second finger changes no accumulator and makes its own sample the one
\* the next pinch is measured from; and in a session of one and two fingers
\* a pinch step is measured from the two points of the sample before it.
C15_NoDeltaAcrossCountChange ==
    [][LET t == fingers' IN
          /\ (Len(t) # Len(lastTouch) /\ TouchMove(t)) =>
                UNCHANGED << rotationBoost, panOffset, zoomOffset >>
          /\ (SingleBranch(t) /\ TouchMove(t)) => lastTouch = fingers
          /\ (Len(t) = 2 /\ TouchStart(t)) =>
                /\ UNCHANGED << rotationBoost, panOffset, zoomOffset >>
                /\ lastTouch' = t
                /\ lastDist' = << PinchDist(t) >>
          /\ (session.peak <= 2 /\ PinchStep(t)) =>
                /\ lastTouch = fingers
                /\ lastDist = << PinchDist(fingers) >>]_vars

\* C15 witness: one of two fingers has lifted and the other has been sampled
\* alone once; that touchmove took no branch (the pointer was never set) and
\* the accumulators are what they were.
C15_FirstMoveAfterLift ==
    /\ session.peak = 2 /\ Len(fingers) = 1 /\ lastTouch = fingers
    /\ pointer = << >>
    /\ rotationBoost = 0 /\ panOffset = [x |-> 0, y |-> 0] /\ zoomOffset = 0

\* C16: a touchmove of two points takes the pinch branch exactly when the
\* sample before has two points too and lastDist is not null.  It then sets
\* isDragging, sets the zoom to prev - (dist - lastDist) * 0.05 clamped to
\* [-20, 40], whatever the display mode, and sets lastDist to dist;
\* otherwise it leaves all three.  On the numbers of the example, a distance
\* of 100 px followed by 140 px lowers the zoom by 2.0, down to -20 at most.
C16_PinchBranch ==
    [][LET t == fingers' IN
          /\ (Len(t) = 2 /\ TouchMove(t)) =>
                IF Len(lastTouch) = 2 /\ lastDist # << >>
                THEN /\ isDragging'
                     /\ zoomOffset' =
                          Max(0 - 20 * Scale,
                              Min(zoomOffset
                                    - ((PinchDist(t) - lastDist[1]) * Scale)
                                          \div 20,
                                  40 * Scale))
                     /\ lastDist' = << PinchDist(t) >>
                ELSE UNCHANGED << isDragging, zoomOffset, lastDist >>
          /\ ZoomNext(zoomOffset, 140 - 100)
                = Max(0 - 20 * Scale, zoomOffset - 2 * Scale)]_vars

\* C16 witness: two fingers that went down 1600 px apart have pinched in to
\* 1200 px, and the zoom, 0 before, is +20.0.
C16_PinchedIn ==
    /\ Len(fingers) = 2 /\ lastTouch = fingers /\ isDragging
    /\ session.peak = 2 /\ session.pinch = "moved"
    /\ lastDist = << 1200 >>
    /\ zoomOffset = 20 * Scale

C18_TouchEndEffects ==
    [][LET t == fingers' IN
          TouchEnd(t) =>
              IF Len(t) = 0
              THEN lastDist' = << >>
              ELSE UNCHANGED << lastTouch, touchStartTime, isDragging,
                                lastDist >>]_vars

\* C18 witness: after a pinch at 2000 px one of the two fingers has lifted;
\* the stored sample still has both points, isDragging is still set and
\* lastDist is still 2000.
C18_LiftAfterPinch ==
    /\ Len(fingers) = 1 /\ Len(lastTouch) = 2
    /\ isDragging
    /\ lastDist = << 2000 >>

\* C19: whenever the pinch branch of touchmove is taken, the lastDist it
\* subtracts is the distance between the two points of the sample just
\* before, whatever the numbers of fingers have been.
C19_PinchFromPreviousSample ==
    [][LET t == fingers' IN
          PinchStep(t) => lastDist = << PinchDist(lastTouch) >>]_vars

\* C20: only touchmove changes rotation, pan and zoom: touchstart and
\* touchend leave them, with any number of points and any stored state; and
\* a touchmove whose sample has another number of points than the sample
\* before, or more than two points, stores its sample and changes nothing
\* else.
C20_OnlyTouchMoveAccumulates ==
    [][LET t == fingers' IN
          /\ (TouchStart(t) \/ TouchEnd(t)) =>
                UNCHANGED << rotationBoost, panOffset, zoomOffset >>
          /\ << rotationBoost, panOffset, zoomOffset >>'
                  # << rotationBoost, panOffset, zoomOffset >>
                => TouchMove(t)
          /\ ((Len(t) # Len(lastTouch) \/ Len(t) > 2) /\ TouchMove(t)) =>
                /\ lastTouch' = t
                /\ UNCHANGED << lastDist, touchStartTime, startTouchPos,
                                isDragging, rotationBoost, panOffset,
                                zoomOffset, pointer, clickTrigger >>]_vars

\* C20 witness: three fingers went down at once, one has lifted, and the two
\* left have been sampled: that touchmove stored its sample and nothing
\* else (no distance, no drag, the accumulators where they were).
C20_TwoSampledAfterThree ==
    /\ session.peak = 3 /\ Len(fingers) = 2 /\ lastTouch = fingers
    /\ lastDist = << >> /\ ~isDragging
    /\ rotationBoost = 0 /\ panOffset = [x |-> 0, y |-> 0] /\ zoomOffset = 0

====
